---- MODULE Spec2Model ----
(***************************************************************************)
(* Froggy-LS: the document store and query engine of the Froggy language   *)
(* server (src/src/backend.rs, src/src/document.rs, src/src/utils).        *)
(*                                                                         *)
(* A text is a sequence of UTF-8 bytes, one string per byte.  A parse tree *)
(* is a sequence of nodes, a node's id being its index.                    *)
(***************************************************************************)
EXTENDS Integers, Sequences, FiniteSets, TLC

VARIABLES
    grammar,    \* the node shapes of the linked tree-sitter-froggy grammar
    docs,       \* Backend.docs: the open-document map, Url -> Doc
    handlers,   \* the did_open / did_change handler futures in flight
    crashed,    \* a handler panicked
    lastReturn, \* what the handler that finished in the last step returned
    opened,     \* the URIs some did_open has inserted (no handler closes one)
    started,    \* the number of notifications received so far
    published,  \* per URI, the diagnostics the client was last sent
    pm,         \* position-mapper harness: one text, one offset, its round trip
    qh          \* query harness: one document and the last query on it

vars == <<grammar, docs, handlers, crashed, lastReturn, opened, started, published, pm, qh>>
serverVars == <<docs, handlers, crashed, lastReturn, opened, started, published>>

(***************************************************************************)
(* Option<T> and the outcome of an expression that may panic.              *)
(***************************************************************************)
None == [some |-> FALSE]
Some(v) == [some |-> TRUE, val |-> v]
Panic == [panic |-> TRUE]
IsSome(o) == "some" \in DOMAIN o /\ o.some
IsPanic(o) == "panic" \in DOMAIN o

(***************************************************************************)
(* UTF-8 bytes.  "LF" is the newline byte; "C3", "E2" and "F0" lead a      *)
(* character of 2, 3 and 4 bytes, "80" continues one; any other byte is an *)
(* ASCII character.                                                        *)
(***************************************************************************)
CharLen(b) ==
    CASE b = "C3" -> 2
      [] b = "E2" -> 3
      [] b = "F0" -> 4
      [] OTHER -> 1

RECURSIVE Concat(_)
Concat(ss) == IF ss = <<>> THEN <<>> ELSE Head(ss) \o Concat(Tail(ss))

(***************************************************************************)
(* line_index::LineIndex, as Doc uses it.                                  *)
(*   newlines : the offset of the start of every line but the first        *)
(*   wide     : per line (0-based, index line+1) the non-ASCII characters   *)
(*              as [start, end) byte columns                               *)
(*   len      : the length of the text in bytes                            *)
(***************************************************************************)
RECURSIVE LineIndexScan(_, _, _, _, _, _)
LineIndexScan(text, i, cur_col, newlines, wide, wide_chars) ==
    IF i > Len(text)
    THEN [newlines |-> newlines, wide |-> Append(wide, wide_chars), len |-> Len(text)]
    ELSE LET c_len == CharLen(text[i])
             cur_row == (i - 1) + c_len
         IN  IF text[i] = "LF"
             THEN LineIndexScan(text, i + 1, 0, Append(newlines, cur_row),
                                Append(wide, wide_chars), <<>>)
             ELSE LineIndexScan(text, i + c_len, cur_col + c_len, newlines, wide,
                                IF c_len > 1
                                THEN Append(wide_chars,
                                            [start |-> cur_col, end |-> cur_col + c_len])
                                ELSE wide_chars)

LineIndexNew(text) == LineIndexScan(text, 1, 0, <<>>, <<>>, <<>>)

\* WideChar::wide_len for WideEncoding::Utf16
WideLen(c) == IF c.end - c.start = 4 THEN 2 ELSE 1

WideCharsOf(li, line) == IF line + 1 \in DOMAIN li.wide THEN li.wide[line + 1] ELSE <<>>

start_offset(li, line) ==
    IF line = 0 THEN Some(0)
    ELSE IF line \in DOMAIN li.newlines THEN Some(li.newlines[line]) ELSE None

try_line_col(li, offset) ==
    IF offset > li.len THEN None
    ELSE LET line == Cardinality({k \in DOMAIN li.newlines : li.newlines[k] <= offset})
             col == offset - start_offset(li, line).val
             wcs == WideCharsOf(li, line)
         IN  IF \A k \in DOMAIN wcs : col <= wcs[k].start \/ wcs[k].end <= col
             THEN Some([line |-> line, col |-> col])
             ELSE None

\* LineIndex::line_col: try_line_col(offset).expect("invalid offset")
line_col(li, offset) ==
    LET r == try_line_col(li, offset) IN IF IsSome(r) THEN r.val ELSE Panic

li_offset(li, lc) ==
    LET s == start_offset(li, lc.line) IN IF IsSome(s) THEN Some(s.val + lc.col) ELSE None

RECURSIVE ToWideLoop(_, _, _, _)
ToWideLoop(wcs, k, orig, col) ==
    IF k > Len(wcs) THEN Some(col)
    ELSE IF wcs[k].end <= orig
         THEN LET d == (wcs[k].end - wcs[k].start) - WideLen(wcs[k])
              IN  IF col < d THEN None ELSE ToWideLoop(wcs, k + 1, orig, col - d)
         ELSE Some(col)

to_wide(li, lc) ==
    LET c == ToWideLoop(WideCharsOf(li, lc.line), 1, lc.col, lc.col)
    IN  IF IsSome(c) THEN Some([line |-> lc.line, col |-> c.val]) ELSE None

RECURSIVE ToUtf8Loop(_, _, _)
ToUtf8Loop(wcs, k, col) ==
    IF k > Len(wcs) THEN col
    ELSE IF col > wcs[k].start
         THEN ToUtf8Loop(wcs, k + 1, col + (wcs[k].end - wcs[k].start) - WideLen(wcs[k]))
         ELSE col

ToUtf8Identity(li, wlc) == Some([line |-> wlc.line, col |-> wlc.col])

to_utf8(li, wlc) ==
    Some([line |-> wlc.line, col |-> ToUtf8Loop(WideCharsOf(li, wlc.line), 1, wlc.col)])

(***************************************************************************)
(* Doc::lsp_position_to_offset and Doc::offset_to_lsp_position.  An LSP    *)
(* Position is [line, character], the character in UTF-16 code units.      *)
(***************************************************************************)
lsp_position_to_offset(li, position) ==
    LET lc == to_utf8(li, [line |-> position.line, col |-> position.character])
    IN  IF IsSome(lc) THEN li_offset(li, lc.val) ELSE None

offset_to_lsp_position(li, offset) ==
    LET lc == line_col(li, offset)
    IN  IF IsPanic(lc) THEN Panic
        ELSE LET w == to_wide(li, lc)
             IN  IF IsSome(w)
                 THEN Some([line |-> w.val.line, character |-> w.val.col])
                 ELSE None

(***************************************************************************)
(* The parse tree.  A node is                                              *)
(*   [kind, start, end, sp, ep, parent, children, name, error, missing]    *)
(* with start/end byte offsets, sp/ep the start and end Points             *)
(* [row, column] in bytes, parent a node id (0 for the root), children the *)
(* child ids in document order, name the child in the grammar field "name" *)
(* (0 when there is none).  The root has id 1.                             *)
(***************************************************************************)
Node(kind, s, e, row, ls, parent, children, name, error) ==
    [kind |-> kind, start |-> s, end |-> e,
     sp |-> [row |-> row, column |-> s - ls], ep |-> [row |-> row, column |-> e - ls],
     parent |-> parent, children |-> children, name |-> name,
     error |-> error, missing |-> FALSE]

KwLILY == <<"L", "I", "L", "Y">>
KwHOP == <<"H", "O", "P">>
KwLEAP == <<"L", "E", "A", "P">>
KwPLOP == <<"P", "L", "O", "P">>
KwDUP == <<"D", "U", "P">>
Digits == {"5"}

\* The grammar versions: in "direct" the target identifier is a child of the
\* hop / leap node; in "wrapped" it is the child of a label_reference node.
Grammars == {"direct", "wrapped"}

RECURSIVE FirstSpace(_, _)
FirstSpace(line, k) ==
    IF k > Len(line) THEN 0 ELSE IF line[k] = " " THEN k ELSE FirstSpace(line, k + 1)

\* a node the parser inserted to recover: zero width, is_missing()
Missing(n) == [n EXCEPT !.missing = TRUE]

\* One statement per line: the nodes of the line `bytes` that starts at byte
\* `ls` on row `row`, the first of them getting id `b`.  A jump keyword with
\* no target gets a MISSING identifier; PLOP takes a number and DUP nothing;
\* any other line is malformed: an ERROR node, and the part after its first
\* space, if any, an ERROR node inside it.
StatementNodes(g, bytes, ls, row, b) ==
    LET sp == FirstSpace(bytes, 1)
        kw == IF sp = 0 THEN bytes ELSE SubSeq(bytes, 1, sp - 1)
        le == ls + Len(bytes)
        miss == sp = 0
        as == IF miss THEN le ELSE ls + sp
        isJump == kw \in {KwHOP, KwLEAP} /\ (miss \/ sp < Len(bytes))
        isDef == kw = KwLILY /\ sp > 0 /\ sp < Len(bytes)
        isPlop == /\ kw = KwPLOP /\ sp > 0 /\ sp < Len(bytes)
                  /\ \A k \in sp + 1 .. Len(bytes) : bytes[k] \in Digits
        jk == IF kw = KwHOP THEN "hop" ELSE "leap"
        jt == IF kw = KwHOP THEN "HOP" ELSE "LEAP"
        target(parent) ==
            IF miss THEN Missing(Node("identifier", as, le, row, ls, parent, <<>>, 0, FALSE))
            ELSE Node("identifier", as, le, row, ls, parent, <<>>, 0, FALSE)
    IN  IF bytes = <<>> THEN <<>>
        ELSE IF isDef
        THEN << Node("label_definition", ls, le, row, ls, 1, <<b + 1, b + 2>>, b + 2, FALSE),
                Node("LILY", ls, ls + 4, row, ls, b, <<>>, 0, FALSE),
                Node("identifier", as, le, row, ls, b, <<>>, 0, FALSE) >>
        ELSE IF isJump /\ g = "direct"
        THEN << Node(jk, ls, le, row, ls, 1, <<b + 1, b + 2>>, 0, FALSE),
                Node(jt, ls, ls + Len(kw), row, ls, b, <<>>, 0, FALSE),
                target(b) >>
        ELSE IF isJump
        THEN << Node(jk, ls, le, row, ls, 1, <<b + 1, b + 2>>, 0, FALSE),
                Node(jt, ls, ls + Len(kw), row, ls, b, <<>>, 0, FALSE),
                Node("label_reference", as, le, row, ls, b, <<b + 3>>, b + 3, FALSE),
                target(b + 2) >>
        ELSE IF isPlop
        THEN << Node("plop", ls, le, row, ls, 1, <<b + 1, b + 2>>, 0, FALSE),
                Node("PLOP", ls, ls + 4, row, ls, b, <<>>, 0, FALSE),
                Node("number", as, le, row, ls, b, <<>>, 0, FALSE) >>
        ELSE IF bytes = KwDUP
        THEN << Node("dup", ls, le, row, ls, 1, <<b + 1>>, 0, FALSE),
                Node("DUP", ls, le, row, ls, b, <<>>, 0, FALSE) >>
        ELSE IF sp > 0 /\ sp < Len(bytes)
        THEN << Node("ERROR", ls, le, row, ls, 1, <<b + 1>>, 0, TRUE),
                Node("ERROR", ls + sp, le, row, ls, b, <<>>, 0, TRUE) >>
        ELSE << Node("ERROR", ls, le, row, ls, 1, <<>>, 0, TRUE) >>

RECURSIVE ParseLines(_, _, _, _, _, _)
ParseLines(g, text, ls, row, nodes, tops) ==
    LET rest == {k \in ls + 1 .. Len(text) : text[k] = "LF"}
        le == IF rest = {} THEN Len(text)
              ELSE (CHOOSE k \in rest : \A j \in rest : k <= j) - 1
        stmt == StatementNodes(g, SubSeq(text, ls + 1, le), ls, row, Len(nodes) + 1)
        nodes2 == nodes \o stmt
        tops2 == IF stmt = <<>> THEN tops ELSE Append(tops, Len(nodes) + 1)
    IN  IF rest = {}
        THEN [nodes2 EXCEPT ![1] =
                 [kind |-> "source_file", start |-> 0, end |-> Len(text),
                  sp |-> [row |-> 0, column |-> 0],
                  ep |-> [row |-> row, column |-> Len(text) - ls],
                  parent |-> 0, children |-> tops2, name |-> 0,
                  error |-> FALSE, missing |-> FALSE]]
        ELSE ParseLines(g, text, le + 1, row + 1, nodes2, tops2)

\* Parser::parse(&text, None) when it returns a tree.
Parse(g, text) == ParseLines(g, text, 0, 0, <<[kind |-> "source_file"]>>, <<>>)

(***************************************************************************)
(* tree_sitter::Node accessors.                                            *)
(***************************************************************************)
child_by_field_name_name(tree, n) == IF tree[n].name = 0 THEN None ELSE Some(tree[n].name)
child(tree, n, i) ==
    IF i + 1 \in DOMAIN tree[n].children THEN Some(tree[n].children[i + 1]) ELSE None
or_else(a, b) == IF IsSome(a) THEN a ELSE b
utf8_text(text, tree, n) == SubSeq(text, tree[n].start + 1, tree[n].end)
ByteRange(s, e) == [start |-> s, end |-> e]

point_lt(a, b) == a.row < b.row \/ (a.row = b.row /\ a.column < b.column)
point_lte(a, b) == a.row < b.row \/ (a.row = b.row /\ a.column <= b.column)

\* Node::descendant_for_point_range(point, point), anonymous nodes included.
RECURSIVE DescendChildren(_, _, _, _)
DescendChildren(tree, n, k, point) ==
    IF k > Len(tree[n].children) THEN n
    ELSE LET c == tree[n].children[k]
         IN  IF point_lt(tree[c].ep, point) \/ point_lte(tree[c].ep, point)
             THEN DescendChildren(tree, n, k + 1, point)
             ELSE IF point_lt(point, tree[c].sp) THEN n
             ELSE DescendChildren(tree, c, 1, point)

descendant_for_point_range(tree, point) == DescendChildren(tree, 1, 1, point)

(***************************************************************************)
(* dfs_visit: the order in which the nodes are visited.                    *)
(***************************************************************************)
RECURSIVE DfsLoop(_, _, _)
DfsLoop(tree, stack, visited) ==
    IF stack = <<>> THEN visited
    ELSE LET node == stack[Len(stack)]
         IN  DfsLoop(tree, SubSeq(stack, 1, Len(stack) - 1) \o tree[node].children,
                     Append(visited, node))

dfs_visit(tree) == DfsLoop(tree, <<1>>, <<>>)

(***************************************************************************)
(* Index::build.  label_defs and label_refs are functions from the names   *)
(* they hold.                                                              *)
(***************************************************************************)
Put(f, k, v) == [x \in DOMAIN f \cup {k} |-> IF x = k THEN v ELSE f[x]]

IndexVisit(idx, tree, text, n) ==
    IF tree[n].kind = "label_definition"
    THEN LET id == or_else(child_by_field_name_name(tree, n), child(tree, n, 1))
         IN  IF IsSome(id)
             THEN [idx EXCEPT !.label_defs =
                      Put(@, utf8_text(text, tree, id.val),
                          ByteRange(tree[n].start, tree[n].end))]
             ELSE idx
    ELSE IF tree[n].kind = "label_reference"
    THEN LET id == or_else(child_by_field_name_name(tree, n), child(tree, n, 0))
         IN  IF IsSome(id)
             THEN LET name == utf8_text(text, tree, id.val)
                      old == IF name \in DOMAIN idx.label_refs
                             THEN idx.label_refs[name] ELSE <<>>
                  IN  [idx EXCEPT !.label_refs =
                          Put(@, name, Append(old, ByteRange(tree[id.val].start,
                                                             tree[id.val].end)))]
             ELSE idx
    ELSE idx

RECURSIVE IndexFold(_, _, _, _, _)
IndexFold(idx, tree, text, order, k) ==
    IF k > Len(order) THEN idx
    ELSE IndexFold(IndexVisit(idx, tree, text, order[k]), tree, text, order, k + 1)

IndexDefault == [label_defs |-> <<>>, label_refs |-> <<>>]

IndexBuild(tree, text) == IndexFold(IndexDefault, tree, text, dfs_visit(tree), 1)

(***************************************************************************)
(* Doc: [text, version, tree, index, line_index].                          *)
(***************************************************************************)
\* Doc::new
DocNew(text, version, tree) ==
    [text |-> text, version |-> version, tree |-> tree,
     index |-> IndexBuild(tree, text), line_index |-> LineIndexNew(text)]

\* Doc::update keeping the index it had (a rebuild that is left out)
DocUpdateStaleIndex(g, doc, text, version) ==
    [doc EXCEPT !.text = text, !.version = version, !.tree = Parse(g, text),
                !.line_index = LineIndexNew(text)]

\* Doc::update building the index on top of the one the Doc had
DocUpdateMergeIndex(g, doc, text, version) ==
    [doc EXCEPT !.text = text, !.version = version, !.tree = Parse(g, text),
                !.index = IndexFold(doc.index, Parse(g, text), text,
                                    dfs_visit(Parse(g, text)), 1),
                !.line_index = LineIndexNew(text)]

\* Doc::update when the parser returns a tree
DocUpdate(g, doc, text, version) ==
    LET d1 == [doc EXCEPT !.text = text]
        d2 == [d1 EXCEPT !.version = version]
        d3 == [d2 EXCEPT !.tree = Parse(g, d2.text)]
        d4 == [d3 EXCEPT !.index = IndexBuild(d3.tree, d3.text)]
    IN  [d4 EXCEPT !.line_index = LineIndexNew(d4.text)]

\* Doc::update when the parser returns None: text and version are assigned,
\* then expect() panics
DocUpdatePanicked(doc, text, version) == [doc EXCEPT !.text = text, !.version = version]

(***************************************************************************)
(* utils::tree_sitter_helpers                                              *)
(***************************************************************************)
unwrap_or(o, d) == IF IsSome(o) THEN o.val ELSE d

\* find_node_at_position: Some(node id), or Panic
find_node_at_position(tree, doc, position) ==
    LET offset == unwrap_or(lsp_position_to_offset(doc.line_index, position), 0)
        at(lc) ==
            IF IsPanic(lc) THEN Panic
            ELSE LET line_start_offset ==
                         unwrap_or(li_offset(doc.line_index, [line |-> lc.line, col |-> 0]), 0)
                     column_bytes == offset - line_start_offset
                     point == [row |-> lc.line, column |-> column_bytes]
                 IN  IF column_bytes < 0 THEN Panic
                     ELSE Some(descendant_for_point_range(tree, point))
    IN  at(line_col(doc.line_index, offset))

PositionDefault == [line |-> 0, character |-> 0]

\* labeldef_to_range with byte columns in place of UTF-16 columns
LabeldefToRangeBytes(def, doc) ==
    LET s == line_col(doc.line_index, def.start)
        e == line_col(doc.line_index, def.end)
    IN  IF IsPanic(s) \/ IsPanic(e) THEN Panic
        ELSE [start |-> [line |-> s.line, character |-> s.col],
              end |-> [line |-> e.line, character |-> e.col]]

\* labeldef_to_range: the Range [start, end] of Positions, or Panic
labeldef_to_range(def, doc) ==
    LET s == offset_to_lsp_position(doc.line_index, def.start)
        e == offset_to_lsp_position(doc.line_index, def.end)
    IN  IF IsPanic(s) \/ IsPanic(e) THEN Panic
        ELSE [start |-> unwrap_or(s, PositionDefault), end |-> unwrap_or(e, PositionDefault)]

\* froggy_helpers::find_label_definition(&doc.index, name)
find_label_definition(index, name) ==
    IF name \in DOMAIN index.label_defs THEN Some(index.label_defs[name]) ELSE None

\* froggy_helpers::find_label_references(&doc.index, name)
find_label_references(index, name) ==
    IF name \in DOMAIN index.label_refs THEN Some(index.label_refs[name]) ELSE None

(***************************************************************************)
(* The query handlers, from the Doc the read lock gave them.  A response   *)
(* is None, Some(..) or Panic.                                             *)
(***************************************************************************)
\* goto_definition that takes the lookup's result for granted: unwrap() on
\* the definition in place of the `if let Some`
GotoDefinitionUnwrap(doc, position) ==
    LET found == find_node_at_position(doc.tree, doc, position)
        node == found.val
    IN  IF IsPanic(found) THEN Panic
        ELSE IF doc.tree[node].kind = "identifier"
                /\ doc.tree[node].parent # 0
                /\ doc.tree[doc.tree[node].parent].kind \in {"hop", "leap"}
        THEN LET label_name == utf8_text(doc.text, doc.tree, node)
                 def_node == find_label_definition(doc.index, label_name)
             IN  IF IsSome(def_node)
                 THEN LET r == labeldef_to_range(def_node.val, doc)
                      IN  IF IsPanic(r) THEN Panic ELSE Some(r)
                 ELSE Panic
        ELSE None

goto_definition(doc, position) ==
    LET found == find_node_at_position(doc.tree, doc, position)
        node == found.val
    IN  IF IsPanic(found) THEN Panic
        ELSE IF doc.tree[node].kind = "identifier"
                /\ doc.tree[node].parent # 0
                /\ doc.tree[doc.tree[node].parent].kind \in {"hop", "leap"}
        THEN LET label_name == utf8_text(doc.text, doc.tree, node)
                 def_node == find_label_definition(doc.index, label_name)
             IN  IF IsSome(def_node)
                 THEN LET r == labeldef_to_range(def_node.val, doc)
                      IN  IF IsPanic(r) THEN Panic ELSE Some(r)
                 ELSE None
        ELSE None

RECURSIVE RangesOf(_, _, _)
RangesOf(refs, k, doc) ==
    IF k > Len(refs) THEN <<>>
    ELSE <<labeldef_to_range(refs[k], doc)>> \o RangesOf(refs, k + 1, doc)

references(doc, position, include_declaration) ==
    LET found == find_node_at_position(doc.tree, doc, position)
        node == found.val
    IN  IF IsPanic(found) THEN Panic
        ELSE IF doc.tree[node].kind = "identifier"
        THEN LET label_name == utf8_text(doc.text, doc.tree, node)
                 def == find_label_definition(doc.index, label_name)
                 refs == find_label_references(doc.index, label_name)
                 l1 == IF include_declaration /\ IsSome(def)
                       THEN <<labeldef_to_range(def.val, doc)>> ELSE <<>>
                 locations == l1 \o (IF IsSome(refs) THEN RangesOf(refs.val, 1, doc) ELSE <<>>)
             IN  IF \E k \in DOMAIN locations : IsPanic(locations[k]) THEN Panic
                 ELSE IF locations # <<>> THEN Some(locations) ELSE None
        ELSE None

(***************************************************************************)
(* Inputs.                                                                 *)
(***************************************************************************)
MaxChars == 3      \* characters of a position-mapper text
MaxStmts == 3      \* statements (lines) of a query-harness text
MaxCol == 7        \* largest UTF-16 column a query position carries

Chars == { <<"a">>, <<"LF">>, <<"C3", "80">>, <<"E2", "80", "80">>,
           <<"F0", "80", "80", "80">> }

RECURSIVE SeqsUpTo(_, _)
SeqsUpTo(parts, n) ==
    IF n = 0 THEN {<<>>}
    ELSE LET shorter == SeqsUpTo(parts, n - 1)
         IN  shorter \cup {t \o <<c>> : t \in shorter, c \in parts}

PosTexts == {Concat(cs) : cs \in SeqsUpTo(Chars, MaxChars)}

NameA == <<"a">>
NameE == <<"C3", "80">>
Stmts == { KwLILY \o <<" ">> \o NameA, KwLILY \o <<" ">> \o NameE,
           KwHOP \o <<" ">> \o NameA, KwLEAP \o <<" ">> \o NameA,
           KwHOP \o <<" ">> \o NameE }

RECURSIVE JoinLines(_)
JoinLines(ls) ==
    IF ls = <<>> THEN <<>>
    ELSE IF Len(ls) = 1 THEN ls[1]
    ELSE ls[1] \o <<"LF">> \o JoinLines(Tail(ls))

QueryTexts == {JoinLines(ls) : ls \in SeqsUpTo(Stmts, MaxStmts)}

Positions == [line : 0 .. MaxStmts, character : 0 .. MaxCol]

(***************************************************************************)
(* The position-mapper harness: a LineIndex is built for one text, one     *)
(* byte offset is converted to a Position and the Position back.           *)
(***************************************************************************)
Idle == [stage |-> "idle"]

PosInit ==
    /\ grammar = "direct" /\ docs = <<>> /\ handlers = <<>> /\ crashed = FALSE
    /\ lastReturn = Idle /\ opened = {} /\ started = 0 /\ published = <<>> /\ qh = Idle
    /\ \E text \in PosTexts :
          pm = [stage |-> "new", text |-> text, line_index |-> LineIndexNew(text)]

PosToPosition(o) ==
    /\ pm.stage = "new"
    /\ pm' = [stage |-> "pos", text |-> pm.text, line_index |-> pm.line_index,
              offset |-> o, pos |-> offset_to_lsp_position(pm.line_index, o)]
    /\ UNCHANGED <<grammar, serverVars, qh>>

PosToOffset ==
    /\ pm.stage = "pos"
    /\ IsSome(pm.pos)
    /\ pm' = [stage |-> "back", text |-> pm.text, line_index |-> pm.line_index,
              offset |-> pm.offset, pos |-> pm.pos,
              back |-> lsp_position_to_offset(pm.line_index, pm.pos.val)]
    /\ UNCHANGED <<grammar, serverVars, qh>>

\* the Positions a client may send for a text of the harness: lines and
\* columns up to one beyond what the longest text holds
MapperPositions == [line : 0 .. MaxChars + 1, character : 0 .. MaxChars + 1]

PosFromPosition(position) ==
    /\ pm.stage = "new"
    /\ pm' = [stage |-> "offset", text |-> pm.text, line_index |-> pm.line_index,
              position |-> position,
              off |-> lsp_position_to_offset(pm.line_index, position)]
    /\ UNCHANGED <<grammar, serverVars, qh>>

PosNext ==
    \/ \E o \in 0 .. Len(pm.text) + 1 : PosToPosition(o)
    \/ PosToOffset
    \/ \E position \in MapperPositions : PosFromPosition(position)

SpecPos == PosInit /\ [][PosNext]_vars

(***************************************************************************)
(* Position mapper properties.                                             *)
(***************************************************************************)
IsContinuation(b) == b = "80"

\* o is a valid byte offset of text: within it and on a character boundary
ValidOffset(text, o) ==
    /\ 0 <= o /\ o <= Len(text)
    /\ (o < Len(text) => ~IsContinuation(text[o + 1]))

\* C6: for every text and every valid byte offset of it (0 <= o <= len, on a
\* character boundary), offset_to_lsp_position yields a Position and
\* lsp_position_to_offset of that Position yields o again.
C6_RoundTrip ==
    /\ (pm.stage = "pos" /\ ValidOffset(pm.text, pm.offset)) => IsSome(pm.pos)
    /\ (pm.stage = "back" /\ ValidOffset(pm.text, pm.offset)) => pm.back = Some(pm.offset)

\* an offset on the second line, after a 4-byte character (2 UTF-16 units)
\* and a 2-byte one (1 unit), came back from its Position
C6_Witness ==
    /\ pm.stage = "back"
    /\ pm.text = <<"LF", "F0", "80", "80", "80", "C3", "80">>
    /\ pm.offset = 7
    /\ pm.pos = Some([line |-> 1, character |-> 3])
    /\ pm.back = Some(7)

(***************************************************************************)
(* The query harness: one document is opened under one grammar version and *)
(* queries are answered from it.                                           *)
(***************************************************************************)
QueryInit ==
    /\ grammar \in Grammars
    /\ docs = <<>> /\ handlers = <<>> /\ crashed = FALSE
    /\ lastReturn = Idle /\ opened = {} /\ started = 0 /\ published = <<>> /\ pm = Idle
    /\ qh = [stage |-> "closed"]

QOpen(text) ==
    /\ qh.stage = "closed"
    /\ qh' = [stage |-> "open", doc |-> DocNew(text, 1, Parse(grammar, text))]
    /\ UNCHANGED <<grammar, serverVars, pm>>

QGotoDefinition(position) ==
    /\ qh.stage = "open"
    /\ qh' = [stage |-> "definition", doc |-> qh.doc, position |-> position,
              response |-> goto_definition(qh.doc, position)]
    /\ UNCHANGED <<grammar, serverVars, pm>>

QReferences(position, include_declaration) ==
    /\ qh.stage = "open"
    /\ qh' = [stage |-> "references", doc |-> qh.doc, position |-> position,
              include_declaration |-> include_declaration,
              response |-> references(qh.doc, position, include_declaration)]
    /\ UNCHANGED <<grammar, serverVars, pm>>

QueryNext ==
    \/ \E text \in QueryTexts : QOpen(text)
    \/ \E position \in Positions : QGotoDefinition(position)
    \/ \E position \in Positions, incl \in BOOLEAN : QReferences(position, incl)

SpecQuery == QueryInit /\ [][QueryNext]_vars

(***************************************************************************)
(* What the text itself says, for stating the query properties: UTF-16     *)
(* positions counted character by character, and the label definitions and *)
(* jump targets of a tree.                                                 *)
(***************************************************************************)
RECURSIVE Utf16Position(_, _, _, _, _)
Utf16Position(text, i, o, line, units) ==
    IF i > o THEN [line |-> line, character |-> units]
    ELSE IF text[i] = "LF" THEN Utf16Position(text, i + 1, o, line + 1, 0)
    ELSE Utf16Position(text, i + CharLen(text[i]), o, line,
                       units + (IF CharLen(text[i]) = 4 THEN 2 ELSE 1))

\* the Range, in UTF-16 positions, of the bytes [s, e)
Utf16Range(text, s, e) ==
    [start |-> Utf16Position(text, 1, s, 0, 0), end |-> Utf16Position(text, 1, e, 0, 0)]

\* the Positions that lie on node n: those of the character starts in its span
OnNode(doc, n, position) ==
    \E o \in doc.tree[n].start .. doc.tree[n].end - 1 :
        /\ ValidOffset(doc.text, o)
        /\ position = Utf16Position(doc.text, 1, o, 0, 0)

NameOfDefinition(doc, d) == utf8_text(doc.text, doc.tree, doc.tree[d].name)
DefinitionsOf(doc, name) ==
    {d \in DOMAIN doc.tree : doc.tree[d].kind = "label_definition"
                             /\ NameOfDefinition(doc, d) = name}

\* the identifiers that are the target child of a jump instruction
JumpTargets(doc) ==
    {n \in DOMAIN doc.tree :
        /\ doc.tree[n].kind = "identifier"
        /\ doc.tree[n].parent # 0
        /\ doc.tree[doc.tree[n].parent].kind \in {"hop", "leap"}}

\* the identifiers a jump instruction names, directly or through a
\* label_reference node
JumpReferences(doc) ==
    {n \in DOMAIN doc.tree :
        /\ doc.tree[n].kind = "identifier"
        /\ doc.tree[n].parent # 0
        /\ LET p == doc.tree[n].parent
           IN  \/ doc.tree[p].kind \in {"hop", "leap"}
               \/ /\ doc.tree[p].kind = "label_reference"
                  /\ doc.tree[p].parent # 0
                  /\ doc.tree[doc.tree[p].parent].kind \in {"hop", "leap"}}

TextOf(doc, n) == utf8_text(doc.text, doc.tree, n)

\* the kind of the jump instruction that names the jump reference n
InstructionOf(doc, n) ==
    LET p == doc.tree[n].parent
    IN  IF doc.tree[p].kind = "label_reference"
        THEN doc.tree[doc.tree[p].parent].kind ELSE doc.tree[p].kind

ReferencesTo(doc, name) == {r \in JumpReferences(doc) : TextOf(doc, r) = name}

C8_DefinitionIsNameRange ==
    qh.stage = "definition" =>
        \A n \in JumpReferences(qh.doc) :
            \A d \in DefinitionsOf(qh.doc, TextOf(qh.doc, n)) :
                (Cardinality(DefinitionsOf(qh.doc, TextOf(qh.doc, n))) = 1
                   /\ InstructionOf(qh.doc, n) = "hop"
                   /\ OnNode(qh.doc, n, qh.position))
                => qh.response
                     = Some(Utf16Range(qh.doc.text,
                                       qh.doc.tree[qh.doc.tree[d].name].start,
                                       qh.doc.tree[qh.doc.tree[d].name].end))

\* C9: for a label with one definition and two jump references,
\* references(pos, includeDeclaration = true) at an identifier of that label
\* returns exactly 3 ranges: the definition, then the two references in
\* document order.
C9_ReferencesDefinitionThenDocumentOrder ==
    (qh.stage = "references" /\ qh.include_declaration) =>
        \A n \in DOMAIN qh.doc.tree :
            (/\ qh.doc.tree[n].kind = "identifier"
             /\ OnNode(qh.doc, n, qh.position)
             /\ Cardinality(DefinitionsOf(qh.doc, TextOf(qh.doc, n))) = 1
             /\ Cardinality(ReferencesTo(qh.doc, TextOf(qh.doc, n))) = 2)
            => \E d \in DefinitionsOf(qh.doc, TextOf(qh.doc, n)) :
               \E r1, r2 \in ReferencesTo(qh.doc, TextOf(qh.doc, n)) :
                  /\ qh.doc.tree[r1].start < qh.doc.tree[r2].start
                  /\ qh.response
                       = Some(<< Utf16Range(qh.doc.text, qh.doc.tree[d].start,
                                            qh.doc.tree[d].end),
                                 Utf16Range(qh.doc.text, qh.doc.tree[r1].start,
                                            qh.doc.tree[r1].end),
                                 Utf16Range(qh.doc.text, qh.doc.tree[r2].start,
                                            qh.doc.tree[r2].end) >>)

\* C10: for every label name, the reference list Index::build produces is in
\* document order: the start offsets of its ranges are strictly increasing.
C10_ReferenceListInDocumentOrder ==
    qh.stage # "closed" =>
        \A name \in DOMAIN qh.doc.index.label_refs :
            LET refs == qh.doc.index.label_refs[name]
            IN  \A i, j \in DOMAIN refs : i < j => refs[i].start < refs[j].start

(***************************************************************************)
(* diagnostics::collect_diagnostics                                        *)
(***************************************************************************)
Diagnostic(text, tree, n) ==
    [range |-> [start |-> [line |-> tree[n].sp.row, character |-> tree[n].sp.column],
                end |-> [line |-> tree[n].ep.row, character |-> tree[n].ep.column]],
     severity |-> "ERROR", source |-> "froggy", message |-> utf8_text(text, tree, n)]

RECURSIVE DiagnosticsLoop(_, _, _, _)
DiagnosticsLoop(tree, text, stack, out) ==
    IF stack = <<>> THEN out
    ELSE LET n == stack[Len(stack)]
             qualifies == tree[n].error \/ tree[n].missing \/ tree[n].kind = "ERROR"
         IN  DiagnosticsLoop(tree, text,
                             SubSeq(stack, 1, Len(stack) - 1) \o tree[n].children,
                             IF qualifies THEN Append(out, Diagnostic(text, tree, n))
                             ELSE out)

\* collect_diagnostics that drops a diagnostic whose range lies inside the
\* range of another one
CollectDiagnosticsOutermost(tree, text) ==
    LET all == DiagnosticsLoop(tree, text, <<1>>, <<>>)
        inside(d, e) == /\ e # d
                        /\ point_lte([row |-> e.range.start.line,
                                      column |-> e.range.start.character],
                                     [row |-> d.range.start.line,
                                      column |-> d.range.start.character])
                        /\ point_lte([row |-> d.range.end.line,
                                      column |-> d.range.end.character],
                                     [row |-> e.range.end.line,
                                      column |-> e.range.end.character])
    IN  SelectSeq(all, LAMBDA d : ~\E k \in DOMAIN all : inside(d, all[k]))

collect_diagnostics(tree, text) == DiagnosticsLoop(tree, text, <<1>>, <<>>)

(***************************************************************************)
(* The server (src/src/backend.rs).  tower-lsp polls the handler futures   *)
(* concurrently: a handler runs from one await to the next, and another    *)
(* handler may run in between.  handlers holds the frames of the handlers  *)
(* in flight, in the order of their notifications; a frame's pc is the     *)
(* step it is about to take:                                               *)
(*   did_open   : "publish" -> "insert" -> finished                        *)
(*   did_change : "insert" -> "publish" -> finished                        *)
(* and "panicked" when expect() found no tree.                             *)
(***************************************************************************)
MaxNotifications == 3

Uris == {"u1", "u2"}
SingleUri == {"u1"}
Versions == {1, 2}
TextDefHop == JoinLines(<<KwLILY \o <<" ">> \o NameA, KwHOP \o <<" ">> \o NameA>>)
TextHopErr == JoinLines(<<KwHOP \o <<" ">> \o NameE, <<"?">>>>)
DocTexts == {TextDefHop, TextHopErr}
ChangeLists == {<<TextDefHop>>, <<TextHopErr>>, <<TextHopErr, TextDefHop>>}
ServerPositions == {[line |-> 0, character |-> 4], [line |-> 1, character |-> 4]}

Remove(f, k) == [x \in DOMAIN f \ {k} |-> f[x]]
Drop(seq, h) == SubSeq(seq, 1, h - 1) \o SubSeq(seq, h + 1, Len(seq))

Init ==
    /\ grammar \in Grammars
    /\ docs = <<>>
    /\ handlers = <<>>
    /\ crashed = FALSE
    /\ lastReturn = Idle
    /\ opened = {}
    /\ started = 0
    /\ published = <<>>
    /\ pm = Idle
    /\ qh = Idle

\* did_open up to its first await: parse, Doc::new, collect_diagnostics
DidOpenBegin(uri, text, version, parsed) ==
    /\ ~crashed
    /\ started < MaxNotifications
    /\ started' = started + 1
    /\ lastReturn' = Idle
    /\ IF parsed
       THEN LET doc == DocNew(text, version, Parse(grammar, text))
            IN  /\ handlers' = Append(handlers,
                       [kind |-> "did_open", pc |-> "publish", uri |-> uri, doc |-> doc,
                        diags |-> collect_diagnostics(doc.tree, doc.text)])
                /\ crashed' = FALSE
       ELSE /\ handlers' = Append(handlers,
                   [kind |-> "did_open", pc |-> "panicked", uri |-> uri])
            /\ crashed' = TRUE
    /\ UNCHANGED <<grammar, docs, opened, published, pm, qh>>

\* client.publish_diagnostics(uri, diags, None)
DidOpenPublish(h) ==
    /\ ~crashed
    /\ h \in DOMAIN handlers
    /\ handlers[h].kind = "did_open" /\ handlers[h].pc = "publish"
    /\ published' = Put(published, handlers[h].uri, handlers[h].diags)
    /\ handlers' = [handlers EXCEPT ![h].pc = "insert"]
    /\ lastReturn' = Idle
    /\ UNCHANGED <<grammar, docs, crashed, opened, started, pm, qh>>

\* did_open's insert into a map that it empties first
DidOpenInsertAlone(h) ==
    /\ ~crashed
    /\ h \in DOMAIN handlers
    /\ handlers[h].kind = "did_open" /\ handlers[h].pc = "insert"
    /\ docs' = Put(<<>>, handlers[h].uri, handlers[h].doc)
    /\ opened' = opened \cup {handlers[h].uri}
    /\ handlers' = Drop(handlers, h)
    /\ lastReturn' = Idle
    /\ UNCHANGED <<grammar, crashed, started, published, pm, qh>>

\* self.docs.write().await.insert(uri, doc)
DidOpenInsert(h) ==
    /\ ~crashed
    /\ h \in DOMAIN handlers
    /\ handlers[h].kind = "did_open" /\ handlers[h].pc = "insert"
    /\ docs' = Put(docs, handlers[h].uri, handlers[h].doc)
    /\ opened' = opened \cup {handlers[h].uri}
    /\ handlers' = Drop(handlers, h)
    /\ lastReturn' = Idle
    /\ UNCHANGED <<grammar, crashed, started, published, pm, qh>>

\* the loop over content_changes: the Doc after the first k changes
RECURSIVE ApplyChanges(_, _, _, _, _)
ApplyChanges(g, doc, changes, version, k) ==
    IF k = 0 THEN doc
    ELSE DocUpdate(g, ApplyChanges(g, doc, changes, version, k - 1), changes[k], version)

\* did_change up to its first await after the lock: the write lock is taken,
\* the Doc removed from the map and the lock released; then every change is
\* applied to the removed Doc and the diagnostics are collected.  The parser
\* returns no tree at change failAt (0: it always returns one).
DidChangeBegin(uri, changes, version, failAt) ==
    /\ ~crashed
    /\ started < MaxNotifications
    /\ started' = started + 1
    /\ IF uri \notin DOMAIN docs
       THEN /\ lastReturn' = [stage |-> "did_change", uri |-> uri,
                              wasOpened |-> uri \in opened]
            /\ UNCHANGED <<docs, handlers, crashed>>
       ELSE /\ lastReturn' = Idle
            /\ docs' = Remove(docs, uri)
            /\ IF failAt = 0
               THEN LET doc == ApplyChanges(grammar, docs[uri], changes, version,
                                            Len(changes))
                    IN  /\ handlers' = Append(handlers,
                               [kind |-> "did_change", pc |-> "insert", uri |-> uri,
                                doc |-> doc,
                                diags |-> collect_diagnostics(doc.tree, doc.text)])
                        /\ crashed' = FALSE
               ELSE /\ handlers' = Append(handlers,
                           [kind |-> "did_change", pc |-> "panicked", uri |-> uri,
                            old |-> docs[uri],
                            doc |-> DocUpdatePanicked(
                                        ApplyChanges(grammar, docs[uri], changes, version,
                                                     failAt - 1),
                                        changes[failAt], version)])
                    /\ crashed' = TRUE
    /\ UNCHANGED <<grammar, opened, published, pm, qh>>

\* { let mut docs = self.docs.write().await; docs.insert(uri.clone(), doc); }
DidChangeInsert(h) ==
    /\ ~crashed
    /\ h \in DOMAIN handlers
    /\ handlers[h].kind = "did_change" /\ handlers[h].pc = "insert"
    /\ docs' = Put(docs, handlers[h].uri, handlers[h].doc)
    /\ handlers' = [handlers EXCEPT ![h] =
                       [kind |-> "did_change", pc |-> "publish", uri |-> handlers[h].uri,
                        diags |-> handlers[h].diags,
                        replaced |-> handlers[h].uri \in DOMAIN docs]]
    /\ lastReturn' = Idle
    /\ UNCHANGED <<grammar, crashed, opened, started, published, pm, qh>>

\* self.client.publish_diagnostics(uri, diags, None)
DidChangePublish(h) ==
    /\ ~crashed
    /\ h \in DOMAIN handlers
    /\ handlers[h].kind = "did_change" /\ handlers[h].pc = "publish"
    /\ published' = Put(published, handlers[h].uri, handlers[h].diags)
    /\ handlers' = Drop(handlers, h)
    /\ lastReturn' = Idle
    /\ UNCHANGED <<grammar, docs, crashed, opened, started, pm, qh>>

\* some did_change in flight for uri has taken and released the write lock
ChangeReleased(uri) ==
    \E h \in DOMAIN handlers :
        /\ handlers[h].kind = "did_change" /\ handlers[h].uri = uri
        /\ handlers[h].pc \in {"insert", "publish"}

\* A query: the read lock is taken, docs.get(uri) read and the response
\* computed before the lock is released.
Query(kind, uri, position, include_declaration) ==
    /\ ~crashed
    /\ LET response ==
               IF uri \notin DOMAIN docs THEN None
               ELSE IF kind = "definition" THEN goto_definition(docs[uri], position)
               ELSE references(docs[uri], position, include_declaration)
       IN  /\ lastReturn' =
                 [stage |-> kind, uri |-> uri, position |-> position,
                  include_declaration |-> include_declaration,
                  present |-> uri \in DOMAIN docs,
                  afterChange |-> ChangeReleased(uri),
                  text |-> IF uri \in DOMAIN docs THEN docs[uri].text ELSE <<>>,
                  response |-> response]
           /\ crashed' = IsPanic(lastReturn'.response)
    /\ UNCHANGED <<grammar, docs, handlers, opened, started, published, pm, qh>>

\* textDocument/didClose: Backend defines no did_close, so the notification
\* gets the LanguageServer trait's default method, which leaves the map as
\* it is
DidClose(uri) ==
    /\ ~crashed
    /\ lastReturn' = [stage |-> "did_close", uri |-> uri, present |-> uri \in DOMAIN docs]
    /\ UNCHANGED <<grammar, docs, handlers, crashed, opened, started, published, pm, qh>>

ServerNext(uris) ==
    \/ \E uri \in uris, text \in DocTexts, version \in Versions, parsed \in BOOLEAN :
          DidOpenBegin(uri, text, version, parsed)
    \/ \E h \in DOMAIN handlers : DidOpenPublish(h)
    \/ \E h \in DOMAIN handlers : DidOpenInsert(h)
    \/ \E uri \in uris, changes \in ChangeLists, version \in Versions :
          \E failAt \in 0 .. Len(changes) : DidChangeBegin(uri, changes, version, failAt)
    \/ \E h \in DOMAIN handlers : DidChangeInsert(h)
    \/ \E h \in DOMAIN handlers : DidChangePublish(h)
    \/ \E uri \in uris, position \in ServerPositions :
          \/ Query("definition", uri, position, FALSE)
          \/ \E incl \in BOOLEAN : Query("references", uri, position, incl)
    \/ \E uri \in uris : DidClose(uri)

\* the server with one document
Next == ServerNext(SingleUri)

Spec == Init /\ [][Next]_vars

(***************************************************************************)
(* Server properties.                                                      *)
(***************************************************************************)
IsQuery(r) == r.stage \in {"definition", "references"}

\* C1: every Document in the open-document map, and so every Document a
\* query obtains, has a tree, a Label Index and a line index built from
\* exactly its current text.
C1_SnapshotConsistent ==
    \A uri \in DOMAIN docs :
        /\ docs[uri].tree = Parse(grammar, docs[uri].text)
        /\ docs[uri].index = IndexBuild(Parse(grammar, docs[uri].text), docs[uri].text)
        /\ docs[uri].line_index = LineIndexNew(docs[uri].text)

\* a query is answered from a Document that a did_change has just stored:
\* the diagnostics last published are still those of the text with the
\* error line, the stored text is the one with the definition
C1_Witness ==
    /\ IsQuery(lastReturn) /\ lastReturn.present
    /\ lastReturn.text = TextDefHop
    /\ "u1" \in DOMAIN published /\ published["u1"] # <<>>
    /\ \E h \in DOMAIN handlers :
          handlers[h].kind = "did_change" /\ handlers[h].pc = "publish"
    /\ docs["u1"].index.label_defs # <<>>

\* C2: a query on an open document that takes the read lock after a
\* did_change for its URI has released the write lock finds the document in
\* the map.
C2_QueryAfterChangeFindsDocument ==
    (IsQuery(lastReturn) /\ lastReturn.afterChange) => lastReturn.present

\* C3: under any interleaving of did_open / did_change handlers on one URI,
\* no did_change returns without applying its text to a document that was
\* opened, and no did_change stores its Doc over one that another writer
\* stored meanwhile.
C3_NoChangeLost ==
    /\ ~(lastReturn.stage = "did_change" /\ lastReturn.wasOpened)
    /\ \A h \in DOMAIN handlers :
          (handlers[h].kind = "did_change" /\ handlers[h].pc = "publish")
          => ~handlers[h].replaced

\* C4: when the parser returns no tree during an update, the previous good
\* Document stays in the open-document map, unchanged.
C4_ParseFailureKeepsDocument ==
    \A h \in DOMAIN handlers :
        (handlers[h].kind = "did_change" /\ handlers[h].pc = "panicked")
        => /\ handlers[h].uri \in DOMAIN docs
           /\ docs[handlers[h].uri] = handlers[h].old

\* C5: no update or query handler panics, for any text, any parser outcome
\* and any query position.
C5_NoPanic == ~crashed

(***************************************************************************)
(* The diagnostics harness: one document is opened and its diagnostics are *)
(* collected, as did_open and did_change do.                               *)
(***************************************************************************)
StmtUnexpected == <<"?">>
StmtNestedError == NameE \o <<" ", "?">>
DiagStmts == { KwLILY \o <<" ">> \o NameA, StmtUnexpected, StmtNestedError, KwHOP }
DiagTexts == {JoinLines(ls) : ls \in SeqsUpTo(DiagStmts, MaxStmts)}

QDiagnostics ==
    /\ qh.stage = "open"
    /\ qh' = [stage |-> "diagnostics", doc |-> qh.doc,
              diags |-> collect_diagnostics(qh.doc.tree, qh.doc.text)]
    /\ UNCHANGED <<grammar, serverVars, pm>>

DiagNext == (\E text \in DiagTexts : QOpen(text)) \/ QDiagnostics

SpecDiag == QueryInit /\ [][DiagNext]_vars

\* the nodes that are erroring, missing or of the generic ERROR kind
Qualifying(tree) ==
    {n \in DOMAIN tree : tree[n].error \/ tree[n].missing \/ tree[n].kind = "ERROR"}

\* node a is an ancestor of node n
RECURSIVE IsAncestor(_, _, _)
IsAncestor(tree, a, n) ==
    /\ tree[n].parent # 0
    /\ (tree[n].parent = a \/ IsAncestor(tree, a, tree[n].parent))

\* the qualifying nodes that contain no other qualifying node
MinimalQualifying(tree) ==
    {n \in Qualifying(tree) : ~\E m \in Qualifying(tree) : IsAncestor(tree, n, m)}

\* C11: collect_diagnostics emits one diagnostic for every node that is
\* erroring, missing or of kind ERROR, nested ones included: as many
\* diagnostics as qualifying nodes, each of severity Error and source
\* "froggy", each qualifying node reported.
C11_OneDiagnosticPerQualifyingNode ==
    qh.stage = "diagnostics" =>
        /\ Len(qh.diags) = Cardinality(Qualifying(qh.doc.tree))
        /\ \A k \in DOMAIN qh.diags :
              qh.diags[k].severity = "ERROR" /\ qh.diags[k].source = "froggy"
        /\ \A n \in Qualifying(qh.doc.tree) :
              \E k \in DOMAIN qh.diags :
                  qh.diags[k] = Diagnostic(qh.doc.text, qh.doc.tree, n)

\* the diagnostics of one line whose ERROR node holds another ERROR node:
\* two of them
C11_Witness ==
    /\ qh.stage = "diagnostics"
    /\ qh.doc.text = StmtNestedError
    /\ Len(qh.diags) = 2
    /\ qh.diags[1].message = StmtNestedError
    /\ qh.diags[2].message = StmtUnexpected

\* C12: diagnostics has exactly one entry per minimal (innermost) erroring
\* node; an erroring node that contains another erroring node adds no entry.
C12_OneDiagnosticPerMinimalNode ==
    qh.stage = "diagnostics" =>
        /\ Len(qh.diags) = Cardinality(MinimalQualifying(qh.doc.tree))
        /\ \A k \in DOMAIN qh.diags :
              \E n \in MinimalQualifying(qh.doc.tree) :
                  qh.diags[k].message = utf8_text(qh.doc.text, qh.doc.tree, n)

\* C13: the range of every diagnostic is the UTF-16 line/column of the
\* node's start and end byte offsets.
C13_DiagnosticRangeIsUtf16 ==
    qh.stage = "diagnostics" =>
        \A k \in DOMAIN qh.diags :
            \E n \in Qualifying(qh.doc.tree) :
                /\ qh.diags[k].message = utf8_text(qh.doc.text, qh.doc.tree, n)
                /\ qh.diags[k].range
                     = Utf16Range(qh.doc.text, qh.doc.tree[n].start, qh.doc.tree[n].end)

(***************************************************************************)
(* semantic_tokens::encode_semantic_tokens.  A Tok is                      *)
(* [line, col, len, ty, mods]; all its fields are u32.                     *)
(***************************************************************************)
\* u32 subtraction.  A result below 0 stands for the subtraction having
\* overflowed: that number plus 2^32 in a release build, a panic in a debug
\* build.
U32Sub(a, b) == a - b

KeyLte(s, t) == s.line < t.line \/ (s.line = t.line /\ s.col <= t.col)

\* sort_by_key(|t| (t.line, t.col)): a stable sort
RECURSIVE InsertByKey(_, _)
InsertByKey(sorted, t) ==
    IF sorted = <<>> THEN <<t>>
    ELSE IF KeyLte(sorted[Len(sorted)], t) THEN Append(sorted, t)
    ELSE Append(InsertByKey(SubSeq(sorted, 1, Len(sorted) - 1), t), sorted[Len(sorted)])

RECURSIVE SortByKey(_, _, _)
SortByKey(toks, k, sorted) ==
    IF k > Len(toks) THEN sorted
    ELSE SortByKey(toks, k + 1, InsertByKey(sorted, toks[k]))

RECURSIVE EncodeLoop(_, _, _, _, _)
EncodeLoop(toks, k, last_line, last_col, data) ==
    IF k > Len(toks) THEN data
    ELSE LET t == toks[k]
             delta_line == U32Sub(t.line, last_line)
             delta_start == IF delta_line = 0 THEN U32Sub(t.col, last_col) ELSE t.col
         IN  EncodeLoop(toks, k + 1, t.line, t.col,
                        Append(data, [delta_line |-> delta_line,
                                      delta_start |-> delta_start,
                                      length |-> t.len,
                                      token_type |-> t.ty,
                                      token_modifiers_bitset |-> t.mods]))

\* encode_semantic_tokens without its sort
EncodeUnsorted(toks) == EncodeLoop(toks, 1, 0, 0, <<>>)

encode_semantic_tokens(toks) == EncodeLoop(SortByKey(toks, 1, <<>>), 1, 0, 0, <<>>)

(***************************************************************************)
(* The encoder harness: one token list is encoded.                         *)
(***************************************************************************)
MaxToks == 3       \* tokens of an encoder input
MaxTokLine == 1    \* largest line of an encoder input token
MaxTokCol == 1     \* largest column of an encoder input token

EncoderToks == [line : 0 .. MaxTokLine, col : 0 .. MaxTokCol, len : {1}, ty : {0, 4},
                mods : {0}]
EncoderInputs == SeqsUpTo(EncoderToks, MaxToks)

EncodeInit ==
    /\ grammar = "direct" /\ docs = <<>> /\ handlers = <<>> /\ crashed = FALSE
    /\ lastReturn = Idle /\ opened = {} /\ started = 0 /\ published = <<>> /\ pm = Idle
    /\ \E toks \in EncoderInputs : qh = [stage |-> "toks", toks |-> toks]

Encode ==
    /\ qh.stage = "toks"
    /\ qh' = [stage |-> "encoded", toks |-> qh.toks,
              data |-> encode_semantic_tokens(qh.toks)]
    /\ UNCHANGED <<grammar, serverVars, pm>>

EncodeNext == Encode

SpecEncode == EncodeInit /\ [][EncodeNext]_vars

\* what a client recovers from the stream: the deltas accumulated
RECURSIVE Decode(_, _, _, _, _)
Decode(data, k, line, col, out) ==
    IF k > Len(data) THEN out
    ELSE LET l == line + data[k].delta_line
             c == IF data[k].delta_line = 0 THEN col + data[k].delta_start
                  ELSE data[k].delta_start
         IN  Decode(data, k + 1, l, c,
                    Append(out, [line |-> l, col |-> c, len |-> data[k].length,
                                 ty |-> data[k].token_type,
                                 mods |-> data[k].token_modifiers_bitset]))

Count(seq, x) == Cardinality({k \in DOMAIN seq : seq[k] = x})

\* C14: no delta overflows, and the stream decodes, by accumulating the
\* deltas from (0,0), to the input tokens in ascending (line, column) order:
\* the decoded list is sorted and holds every input token as often as the
\* input does.
C14_EncodeDecodesToSortedTokens ==
    qh.stage = "encoded" =>
        LET dec == Decode(qh.data, 1, 0, 0, <<>>)
        IN  /\ Len(dec) = Len(qh.toks)
            /\ \A k \in DOMAIN qh.data :
                  qh.data[k].delta_line >= 0 /\ qh.data[k].delta_start >= 0
            /\ \A i, j \in DOMAIN dec : i < j => KeyLte(dec[i], dec[j])
            /\ \A k \in DOMAIN qh.toks : Count(dec, qh.toks[k]) = Count(qh.toks, qh.toks[k])

\* three tokens given in descending order, two of them on line 1, encoded
C14_Witness ==
    /\ qh.stage = "encoded"
    /\ qh.toks = << [line |-> 1, col |-> 1, len |-> 1, ty |-> 0, mods |-> 0],
                    [line |-> 1, col |-> 0, len |-> 1, ty |-> 4, mods |-> 0],
                    [line |-> 0, col |-> 1, len |-> 1, ty |-> 0, mods |-> 0] >>
    /\ qh.data = << [delta_line |-> 0, delta_start |-> 1, length |-> 1,
                     token_type |-> 0, token_modifiers_bitset |-> 0],
                    [delta_line |-> 1, delta_start |-> 0, length |-> 1,
                     token_type |-> 4, token_modifiers_bitset |-> 0],
                    [delta_line |-> 0, delta_start |-> 1, length |-> 1,
                     token_type |-> 0, token_modifiers_bitset |-> 0] >>

(***************************************************************************)
(* semantic_tokens::build_semantic_tokens                                  *)
(***************************************************************************)
KEYWORD == 0
NUMBER == 1
\* token_types::VARIABLE
VARIABLE_TYPE == 4
FUNCTION == 5
DEFINITION == 1

ControlFlowKinds == {"lily", "hop", "leap"}
StackKinds == {"plop", "splash", "gulp", "burp", "dup", "swap", "over"}

\* froggy_helpers::leading_word_range: the node's leading run of bytes that
\* are not whitespace
RECURSIVE LeadingRunEnd(_, _, _)
LeadingRunEnd(text, k, e) ==
    IF k >= e \/ text[k + 1] \in {" ", "LF"} THEN k ELSE LeadingRunEnd(text, k + 1, e)

leading_word_range(text, tree, n) ==
    ByteRange(tree[n].start, LeadingRunEnd(text, tree[n].start, tree[n].end))

\* tok_from_range without the comparison of the two lines
TokFromRangeAnyLines(doc, r, ty, mods) ==
    LET tok(start, end) ==
            IF IsPanic(start) THEN Panic
            ELSE IF ~IsSome(start) THEN None
            ELSE IF IsPanic(end) THEN Panic
            ELSE IF ~IsSome(end) THEN None
            ELSE Some([line |-> start.val.line, col |-> start.val.character,
                       len |-> U32Sub(end.val.character, start.val.character),
                       ty |-> ty, mods |-> mods])
    IN  tok(offset_to_lsp_position(doc.line_index, r.start),
            offset_to_lsp_position(doc.line_index, r.end))

\* tok_from_range: Some(Tok), None, or Panic
tok_from_range(doc, r, ty, mods) ==
    LET tok(start, end) ==
            IF IsPanic(start) THEN Panic
            ELSE IF ~IsSome(start) THEN None
            ELSE IF IsPanic(end) THEN Panic
            ELSE IF ~IsSome(end) THEN None
            ELSE IF start.val.line # end.val.line THEN None
            ELSE Some([line |-> start.val.line, col |-> start.val.character,
                       len |-> U32Sub(end.val.character, start.val.character),
                       ty |-> ty, mods |-> mods])
    IN  tok(offset_to_lsp_position(doc.line_index, r.start),
            offset_to_lsp_position(doc.line_index, r.end))

NodeRange(tree, n) == ByteRange(tree[n].start, tree[n].end)

\* the Option<Tok> values the closure gets from tok_from_range for node n,
\* in the order it pushes them
TokVisit(doc, n) ==
    LET tree == doc.tree
        kind == tree[n].kind
        word(ty) == <<tok_from_range(doc, leading_word_range(doc.text, tree, n), ty, 0)>>
        whole(ty) == <<tok_from_range(doc, NodeRange(tree, n), ty, 0)>>
        of(c, ty, mods) ==
            IF IsSome(c) THEN <<tok_from_range(doc, NodeRange(tree, c.val), ty, mods)>>
            ELSE <<>>
    IN  IF kind \in ControlFlowKinds THEN word(KEYWORD)
        ELSE IF kind \in StackKinds THEN word(FUNCTION)
        ELSE IF kind = "label_definition"
        THEN of(or_else(child_by_field_name_name(tree, n), child(tree, n, 0)), KEYWORD, 0)
             \o of(or_else(child_by_field_name_name(tree, n), child(tree, n, 1)),
                   VARIABLE_TYPE, DEFINITION)
        ELSE IF kind = "stack_manipulation"
        THEN of(or_else(child_by_field_name_name(tree, n), child(tree, n, 0)), FUNCTION, 0)
        ELSE IF kind = "identifier"
        THEN IF tree[n].parent # 0
                /\ tree[tree[n].parent].kind \in {"label_definition", "hop", "leap"}
             THEN <<>>
             ELSE whole(VARIABLE_TYPE)
        ELSE IF kind \in {"number", "integer", "float"} THEN whole(NUMBER)
        ELSE <<>>

RECURSIVE TokFold(_, _, _, _)
TokFold(doc, order, k, toks) ==
    IF k > Len(order) THEN toks
    ELSE TokFold(doc, order, k + 1, toks \o TokVisit(doc, order[k]))

\* a tok_from_range call of build_semantic_tokens panics
BuildPanics(doc) ==
    LET got == TokFold(doc, dfs_visit(doc.tree), 1, <<>>)
    IN  \E k \in DOMAIN got : IsPanic(got[k])

\* build_semantic_tokens when it returns: the Vec<Tok>
build_semantic_tokens(doc) ==
    LET some == SelectSeq(TokFold(doc, dfs_visit(doc.tree), 1, <<>>), IsSome)
    IN  [k \in DOMAIN some |-> some[k].val]

\* semantic_tokens_full, from the Doc the read lock gave it
semantic_tokens_full(doc) ==
    IF BuildPanics(doc) THEN Panic
    ELSE Some(encode_semantic_tokens(build_semantic_tokens(doc)))

(***************************************************************************)
(* The token harness: one document is opened and its semantic tokens are   *)
(* requested.                                                              *)
(***************************************************************************)
StmtPlop == KwPLOP \o <<" ", "5">>
TokStmts == { StmtPlop, KwDUP, KwLILY \o <<" ">> \o NameA, KwLILY \o <<" ">> \o NameE,
              KwHOP \o <<" ">> \o NameA }
TokTexts == {JoinLines(ls) : ls \in SeqsUpTo(TokStmts, MaxStmts)}

QSemanticTokens ==
    /\ qh.stage = "open"
    /\ qh' = [stage |-> "tokens", doc |-> qh.doc,
              toks |-> build_semantic_tokens(qh.doc),
              response |-> semantic_tokens_full(qh.doc)]
    /\ UNCHANGED <<grammar, serverVars, pm>>

TokNext == (\E text \in TokTexts : QOpen(text)) \/ QSemanticTokens

SpecTokens == QueryInit /\ [][TokNext]_vars

\* the tokens that start where node n starts
TokensAt(toks, doc, n) ==
    {k \in DOMAIN toks :
        [line |-> toks[k].line, character |-> toks[k].col]
          = Utf16Position(doc.text, 1, doc.tree[n].start, 0, 0)}

\* C15: a stack-operation instruction word yields exactly one token, of type
\* Keyword; the stream of `PLOP 5` holds exactly two tokens, Keyword then
\* Number.
C15_StackOperationIsKeyword ==
    qh.stage = "tokens" =>
        /\ \A n \in DOMAIN qh.doc.tree :
              qh.doc.tree[n].kind \in StackKinds =>
                 /\ Cardinality(TokensAt(qh.toks, qh.doc, n)) = 1
                 /\ \A k \in TokensAt(qh.toks, qh.doc, n) : qh.toks[k].ty = KEYWORD
        /\ qh.doc.text = StmtPlop =>
              /\ IsSome(qh.response)
              /\ Len(qh.response.val) = 2
              /\ qh.response.val[1].token_type = KEYWORD
              /\ qh.response.val[2].token_type = NUMBER

(***************************************************************************)
(* The update harness: one document is opened and then updated, one        *)
(* update after the other, as did_change does for each content change.     *)
(***************************************************************************)
MaxUpdates == 2

TextDefHopLeap ==
    JoinLines(<< KwLILY \o <<" ">> \o NameA, KwHOP \o <<" ">> \o NameA,
                 KwLEAP \o <<" ">> \o NameA >>)
UpdateTexts == {TextDefHopLeap, TextDefHop, KwHOP \o <<" ">> \o NameE, <<>>}

QUpdate(text, version) ==
    /\ qh.stage \in {"open", "updated"}
    /\ LET n == IF qh.stage = "open" THEN 0 ELSE qh.updates
       IN  /\ n < MaxUpdates
           /\ qh' = [stage |-> "updated", prev |-> qh.doc, updates |-> n + 1,
                     doc |-> DocUpdate(grammar, qh.doc, text, version)]
    /\ UNCHANGED <<grammar, serverVars, pm>>

UpdateNext ==
    \/ \E text \in UpdateTexts : QOpen(text)
    \/ \E text \in UpdateTexts, version \in Versions : QUpdate(text, version)

SpecUpdate == QueryInit /\ [][UpdateNext]_vars

\* C16: an update with the text that the update before it had already set
\* leaves the Label Index as it was: the same definition map and the same
\* reference lists in the same order.
C16_UpdateIdempotent ==
    (qh.stage = "updated" /\ qh.updates >= 2 /\ qh.doc.text = qh.prev.text)
    => qh.doc.index = qh.prev.index

\* two updates in a row with a text that has a definition and two
\* references, which the index holds
C16_Witness ==
    /\ qh.stage = "updated" /\ qh.updates = 2
    /\ qh.doc.text = TextDefHopLeap /\ qh.prev.text = TextDefHopLeap
    /\ NameA \in DOMAIN qh.doc.index.label_defs
    /\ NameA \in DOMAIN qh.doc.index.label_refs
    /\ Len(qh.doc.index.label_refs[NameA]) = 2

\* C18: the stored version never decreases over open and update operations.
C18_VersionMonotonic ==
    qh.stage = "updated" => qh.doc.version >= qh.prev.version

(***************************************************************************)
(* Closing a document, and queries that find nothing.                      *)
(***************************************************************************)
\* C17: after a close notification for a URI the open-document map holds no
\* entry for that URI.
C17_ClosedDocumentRemoved ==
    lastReturn.stage = "did_close" => lastReturn.uri \notin DOMAIN docs

\* the Document a query on the text `text` is answered from
QueriedDoc(text) == DocNew(text, 1, Parse(grammar, text))

\* C19: a query that finds nothing answers None and does not panic: a query
\* on a URI that is not in the open-document map, goto_definition on the
\* target of a jump whose label has no definition, and references on an
\* identifier whose name has neither a definition nor a reference list.
C19_AbsenceIsNone ==
    IsQuery(lastReturn) =>
        LET doc == QueriedDoc(lastReturn.text)
        IN  /\ ~lastReturn.present => lastReturn.response = None
            /\ (lastReturn.present /\ lastReturn.stage = "definition") =>
                  \A n \in JumpReferences(doc) :
                      (/\ OnNode(doc, n, lastReturn.position)
                       /\ DefinitionsOf(doc, TextOf(doc, n)) = {})
                      => lastReturn.response = None
            /\ (lastReturn.present /\ lastReturn.stage = "references") =>
                  \A n \in DOMAIN doc.tree :
                      (/\ doc.tree[n].kind = "identifier"
                       /\ OnNode(doc, n, lastReturn.position)
                       /\ TextOf(doc, n) \notin DOMAIN doc.index.label_defs
                       /\ TextOf(doc, n) \notin DOMAIN doc.index.label_refs)
                      => lastReturn.response = None

\* goto_definition answered None at the target of `HOP e` in a document
\* that defines no label
C19_Witness ==
    /\ lastReturn.stage = "definition" /\ lastReturn.present
    /\ lastReturn.text = TextHopErr
    /\ lastReturn.position = [line |-> 0, character |-> 4]
    /\ lastReturn.response = None

\* C20: offset_to_lsp_position answers None, without panicking, for every
\* byte offset greater than the length of the text.
C20_OutOfRangeIsNone ==
    (pm.stage = "pos" /\ pm.offset > Len(pm.text)) => pm.pos = None

(***************************************************************************)
(* Positions beyond a line's end.                                          *)
(***************************************************************************)
\* the byte offsets of text that lie on line `line`
OffsetsOnLine(text, line) ==
    {o \in 0 .. Len(text) :
        ValidOffset(text, o) /\ Utf16Position(text, 1, o, 0, 0).line = line}

\* the offset of the end of line `line` (before its newline)
LineEndOffset(text, line) ==
    CHOOSE o \in OffsetsOnLine(text, line) : \A p \in OffsetsOnLine(text, line) : p <= o

\* C21: for a Position whose line the text has, lsp_position_to_offset
\* yields an offset on that line, and for a column beyond the line's width
\* the offset of the line's end; it yields None only when the text has no
\* such line.
C21_ColumnClampedToLineEnd ==
    pm.stage = "offset" =>
        IF OffsetsOnLine(pm.text, pm.position.line) = {}
        THEN pm.off = None
        ELSE LET end == LineEndOffset(pm.text, pm.position.line)
             IN  /\ IsSome(pm.off)
                 /\ pm.off.val <= end
                 /\ pm.position.character
                      > Utf16Position(pm.text, 1, end, 0, 0).character
                    => pm.off.val = end

(***************************************************************************)
(* document_symbol, from the Doc the read lock gave it.  label_defs is a   *)
(* HashMap: `order` is the order in which its iterator yields the names.   *)
(***************************************************************************)
IterationOrders(f) ==
    {o \in [1 .. Cardinality(DOMAIN f) -> DOMAIN f] :
        \A i, j \in DOMAIN o : i # j => o[i] # o[j]}

DocumentSymbol(doc, name, range) ==
    [name |-> name, detail |-> Some("Label"), kind |-> "FUNCTION",
     range |-> labeldef_to_range(range, doc),
     selection_range |-> labeldef_to_range(range, doc)]

\* document_symbol with the symbols' selection ranges in byte columns
DocumentSymbolSelectionBytes(doc, order) ==
    Some([k \in DOMAIN order |->
            [DocumentSymbol(doc, order[k], doc.index.label_defs[order[k]])
                EXCEPT !.selection_range =
                    LabeldefToRangeBytes(doc.index.label_defs[order[k]], doc)]])

document_symbol(doc, order) ==
    LET symbols == [k \in DOMAIN order |->
                      DocumentSymbol(doc, order[k], doc.index.label_defs[order[k]])]
    IN  IF \E k \in DOMAIN symbols : IsPanic(symbols[k].range) THEN Panic
        ELSE Some(symbols)

QDocumentSymbol(order) ==
    /\ qh.stage = "open"
    /\ qh' = [stage |-> "symbols", doc |-> qh.doc,
              response |-> document_symbol(qh.doc, order)]
    /\ UNCHANGED <<grammar, serverVars, pm>>

SymbolNext ==
    \/ \E text \in QueryTexts : QOpen(text)
    \/ /\ qh.stage = "open"
       /\ \E order \in IterationOrders(qh.doc.index.label_defs) : QDocumentSymbol(order)

SpecSymbols == QueryInit /\ [][SymbolNext]_vars

\* C22: document_symbol answers exactly one symbol per entry of the Label
\* Index definition map: its name is the label name, its kind is function,
\* and its range and selection range are both the span of the definition
\* the entry holds.
C22_OneSymbolPerDefinition ==
    qh.stage = "symbols" =>
        LET defs == qh.doc.index.label_defs
        IN  /\ IsSome(qh.response)
            /\ Len(qh.response.val) = Cardinality(DOMAIN defs)
            /\ \A name \in DOMAIN defs :
                  \E k \in DOMAIN qh.response.val :
                     /\ qh.response.val[k].name = name
                     /\ qh.response.val[k].kind = "FUNCTION"
                     /\ qh.response.val[k].range
                          = Utf16Range(qh.doc.text, defs[name].start, defs[name].end)
                     /\ qh.response.val[k].selection_range = qh.response.val[k].range
                     /\ \A j \in DOMAIN qh.response.val :
                           qh.response.val[j].name = name => j = k

\* the symbols of a document that defines `a` and, on its second line, a
\* label that is a 2-byte character
C22_Witness ==
    /\ qh.stage = "symbols"
    /\ qh.doc.text = JoinLines(<<KwLILY \o <<" ">> \o NameA, KwLILY \o <<" ">> \o NameE>>)
    /\ IsSome(qh.response)
    /\ Len(qh.response.val) = 2
    /\ \E k \in 1 .. 2 :
          /\ qh.response.val[k].name = NameE
          /\ qh.response.val[k].range = [start |-> [line |-> 1, character |-> 0],
                                         end |-> [line |-> 1, character |-> 6]]

(***************************************************************************)
(* A label defined more than once.                                         *)
(***************************************************************************)
\* C23: when a label name is defined more than once, the Label Index holds
\* the span of the definition that comes last in the document.
C23_LastDefinitionInDocumentWins ==
    qh.stage = "symbols" =>
        \A d1, d2 \in DOMAIN qh.doc.tree :
            (/\ qh.doc.tree[d1].kind = "label_definition"
             /\ qh.doc.tree[d2].kind = "label_definition"
             /\ NameOfDefinition(qh.doc, d1) = NameOfDefinition(qh.doc, d2)
             /\ qh.doc.tree[d1].start <= qh.doc.tree[d2].start
             /\ \A d \in DefinitionsOf(qh.doc, NameOfDefinition(qh.doc, d1)) :
                   qh.doc.tree[d].start <= qh.doc.tree[d2].start)
            => /\ NameOfDefinition(qh.doc, d2) \in DOMAIN qh.doc.index.label_defs
               /\ qh.doc.index.label_defs[NameOfDefinition(qh.doc, d2)]
                    = ByteRange(qh.doc.tree[d2].start, qh.doc.tree[d2].end)

(***************************************************************************)
(* Tokens of label names.                                                  *)
(***************************************************************************)
\* C24: no two tokens build_semantic_tokens produces start at the same
\* (line, column), and so the encoded stream holds no token after the first
\* with line delta 0 and column delta 0.
C24_NoDoubleTag ==
    qh.stage = "tokens" =>
        /\ \A i, j \in DOMAIN qh.toks :
              i # j => <<qh.toks[i].line, qh.toks[i].col>> # <<qh.toks[j].line, qh.toks[j].col>>
        /\ IsSome(qh.response) =>
              \A k \in DOMAIN qh.response.val :
                  k > 1 => ~(/\ qh.response.val[k].delta_line = 0
                             /\ qh.response.val[k].delta_start = 0)

\* C25: every identifier whose parent is a hop or leap node yields exactly
\* one token, of type Variable and without the Definition modifier.
C25_JumpTargetIsVariable ==
    qh.stage = "tokens" =>
        \A n \in JumpTargets(qh.doc) :
            /\ Cardinality(TokensAt(qh.toks, qh.doc, n)) = 1
            /\ \A k \in TokensAt(qh.toks, qh.doc, n) :
                  qh.toks[k].ty = VARIABLE_TYPE /\ qh.toks[k].mods = 0

(***************************************************************************)
(* The token-range harness: one document is opened and tok_from_range is   *)
(* applied to a byte range of its text, from one character boundary to a   *)
(* later one, as the ranges of a tree's nodes are.                         *)
(***************************************************************************)
TokRangeTexts ==
    { StmtPlop, JoinLines(<<KwDUP, KwDUP>>),
      JoinLines(<<KwLILY \o <<" ">> \o NameE, KwHOP \o <<" ">> \o NameA>>),
      JoinLines(<<KwDUP, <<>>, KwLILY \o <<" ">> \o NameE>>) }

NodeRanges(text) ==
    LET boundaries == {o \in 0 .. Len(text) : ValidOffset(text, o)}
    IN  {r \in {ByteRange(b, e) : b \in boundaries, e \in boundaries} : r.start <= r.end}

QTokFromRange(r) ==
    /\ qh.stage = "open"
    /\ qh' = [stage |-> "tok", doc |-> qh.doc, r |-> r,
              tok |-> tok_from_range(qh.doc, r, KEYWORD, 0)]
    /\ UNCHANGED <<grammar, serverVars, pm>>

TokRangeNext ==
    \/ \E text \in TokRangeTexts : QOpen(text)
    \/ /\ qh.stage = "open"
       /\ \E r \in NodeRanges(qh.doc.text) : QTokFromRange(r)

SpecTokRange == QueryInit /\ [][TokRangeNext]_vars

InstructionRules ==
    { <<"PLOP", "plop", "PLOP <value>: Push a value onto the stack">>,
      <<"SPLASH", "splash", "SPLASH: Pop a value off the stack">>,
      <<"GULP", "gulp", "GULP: Increment top of stack">>,
      <<"BURP", "burp", "BURP: Decrement top of stack">>,
      <<"DUP", "dup", "DUP: Duplicate top of stack">>,
      <<"SWAP", "swap", "SWAP: Swap top two stack values">>,
      <<"OVER", "over", "OVER: Duplicate second from top of stack">>,
      <<"LILY", "lily", "LILY <label>: Define a lilypad label">>,
      <<"HOP", "hop", "HOP <Lilypad>: Unconditional jump to a lilypad">>,
      <<"LEAP", "leap", "LEAP <Lilypad>: Pop a, if (a == 0) then jump to lilypad">>,
      <<"RIBBIT", "ribbit", "RIBBIT: Print top of stack">>,
      <<"CROAK", "croak", "CROAK: Read input">>,
      <<"ADD", "add", "ADD: Pop a b, push (b + a)">>,
      <<"SUB", "sub", "SUB: Pop a b, push (b - a)">>,
      <<"MUL", "mul", "MUL: Pop a b, push (b * a)">>,
      <<"DIV", "div", "DIV: Pop a b, push (b / a)">>,
      <<"EQUALS", "equals", "EQUALS: Pop a b, push (b == a)">>,
      <<"NOT_EQUAL", "not_equal", "NOT_EQUAL: Pop a b, push (b != a)">>,
      <<"LESS_THAN", "less_than", "LESS_THAN: Pop a b, push (b < a)">>,
      <<"GREATER_THAN", "greater_than", "GREATER_THAN: Pop a b, push (b > a)">>,
      <<"LESS_EQ", "less_eq", "LESS_EQ: Pop a b, push (b <= a)">>,
      <<"GREATER_EQ", "greater_eq", "GREATER_EQ: Pop a b, push (b >= a)">> }

IsInstructionKind(kind) == \E t \in InstructionRules : kind \in {t[1], t[2]}
InstructionText(kind) == (CHOOSE t \in InstructionRules : kind \in {t[1], t[2]})[3]

\* froggy_helpers::make_hover(text, range, doc): the Hover, or Panic.  The
\* text is the sequence of the pieces it is formatted from.
make_hover(contents, r, doc) ==
    LET hover_of(range) ==
            IF IsPanic(range) THEN Panic ELSE Some([contents |-> contents, range |-> range])
    IN  hover_of(labeldef_to_range(r, doc))

\* the loop of hover from the node cur on
RECURSIVE HoverLoop(_, _)
HoverLoop(doc, cur) ==
    LET tree == doc.tree
        kind == tree[cur].kind
        up == IF tree[cur].parent # 0 THEN HoverLoop(doc, tree[cur].parent) ELSE None
    IN  IF IsInstructionKind(kind)
        THEN make_hover(<<InstructionText(kind)>>, leading_word_range(doc.text, tree, cur), doc)
        ELSE IF kind = "label_definition"
        THEN IF IsSome(child_by_field_name_name(tree, cur))
             THEN make_hover(<<"Label definition: ",
                               utf8_text(doc.text, tree,
                                         child_by_field_name_name(tree, cur).val)>>,
                             NodeRange(tree, child_by_field_name_name(tree, cur).val), doc)
             ELSE up
        ELSE IF kind = "identifier"
        THEN IF /\ tree[cur].parent # 0
                /\ tree[tree[cur].parent].kind \notin {"label_definition", "hop", "leap"}
                /\ IsSome(find_label_definition(doc.index, utf8_text(doc.text, tree, cur)))
             THEN make_hover(<<"Label: ", utf8_text(doc.text, tree, cur)>>,
                             leading_word_range(doc.text, tree, cur), doc)
             ELSE up
        ELSE up

\* hover that starts its walk at the parent of the node at the position
HoverFromParent(doc, position) ==
    LET walk(found) ==
            IF IsPanic(found) THEN Panic
            ELSE IF doc.tree[found.val].parent # 0
            THEN HoverLoop(doc, doc.tree[found.val].parent)
            ELSE None
    IN  walk(find_node_at_position(doc.tree, doc, position))

hover(doc, position) ==
    LET walk(found) == IF IsPanic(found) THEN Panic ELSE HoverLoop(doc, found.val)
    IN  walk(find_node_at_position(doc.tree, doc, position))

(***************************************************************************)
(* The hover harness: one document is opened and hover is answered at one  *)
(* position.                                                               *)
(***************************************************************************)
HoverStmts == { KwLILY \o <<" ">> \o NameA, KwHOP \o <<" ">> \o NameA,
                KwHOP \o <<" ">> \o NameE, StmtPlop, StmtUnexpected }
HoverTexts == {JoinLines(ls) : ls \in SeqsUpTo(HoverStmts, MaxStmts)}

QHover(position) ==
    /\ qh.stage = "open"
    /\ qh' = [stage |-> "hover", doc |-> qh.doc, position |-> position,
              node |-> find_node_at_position(qh.doc.tree, qh.doc, position),
              response |-> hover(qh.doc, position)]
    /\ UNCHANGED <<grammar, serverVars, pm>>

HoverNext ==
    \/ \E text \in HoverTexts : QOpen(text)
    \/ \E position \in Positions : QHover(position)

SpecHover == QueryInit /\ [][HoverNext]_vars

\* the levels of the walk from node n: n and its ancestors
HoverLevels(doc, n) == {n} \cup {a \in DOMAIN doc.tree : IsAncestor(doc.tree, a, n)}

\* a rule answers at node a: an instruction or keyword kind, a label
\* definition with a name child, or an identifier that is neither a
\* definition's name nor a jump's target and whose label is defined
HoverRuleMatches(doc, a) ==
    \/ IsInstructionKind(doc.tree[a].kind)
    \/ doc.tree[a].kind = "label_definition" /\ doc.tree[a].name # 0
    \/ /\ doc.tree[a].kind = "identifier"
       /\ doc.tree[a].parent # 0
       /\ doc.tree[doc.tree[a].parent].kind \notin {"label_definition", "hop", "leap"}
       /\ TextOf(doc, a) \in DOMAIN doc.index.label_defs

\* what the rule that matches at node a answers
HoverRuleAnswer(doc, a) ==
    IF IsInstructionKind(doc.tree[a].kind)
    THEN [contents |-> <<InstructionText(doc.tree[a].kind)>>,
          range |-> Utf16Range(doc.text, doc.tree[a].start,
                               LeadingRunEnd(doc.text, doc.tree[a].start, doc.tree[a].end))]
    ELSE IF doc.tree[a].kind = "label_definition"
    THEN [contents |-> <<"Label definition: ", TextOf(doc, doc.tree[a].name)>>,
          range |-> Utf16Range(doc.text, doc.tree[doc.tree[a].name].start,
                               doc.tree[doc.tree[a].name].end)]
    ELSE [contents |-> <<"Label: ", TextOf(doc, a)>>,
          range |-> Utf16Range(doc.text, doc.tree[a].start, doc.tree[a].end)]

\* C27: hover answers what the rule answers that matches at the lowest
\* level of the walk from the located node through its ancestors, and None
\* when no rule matches at any level up to the root; an identifier that is
\* a definition's name or a jump's target, or whose label has no
\* definition, does not answer itself.
C27_HoverFirstMatchingLevel ==
    (qh.stage = "hover" /\ ~IsPanic(qh.node)) =>
        LET matching == {a \in HoverLevels(qh.doc, qh.node.val) : HoverRuleMatches(qh.doc, a)}
        IN  IF matching = {} THEN qh.response = None
            ELSE \E a \in matching :
                    /\ \A b \in matching : b = a \/ IsAncestor(qh.doc.tree, b, a)
                    /\ qh.response = Some(HoverRuleAnswer(qh.doc, a))

\* hover on the target of `HOP a`, a child of the hop node, in a document
\* that defines `a`: the identifier does not answer, the hop node does
C27_Witness ==
    /\ qh.stage = "hover" /\ grammar = "direct"
    /\ qh.doc.text = JoinLines(<<KwLILY \o <<" ">> \o NameA, KwHOP \o <<" ">> \o NameA>>)
    /\ qh.position = [line |-> 1, character |-> 4]
    /\ qh.doc.tree[qh.node.val].kind = "identifier"
    /\ qh.response = Some([contents |-> <<"HOP <Lilypad>: Unconditional jump to a lilypad">>,
                           range |-> [start |-> [line |-> 1, character |-> 0],
                                      end |-> [line |-> 1, character |-> 3]]])

(***************************************************************************)
(* The server with two documents.  The parser returns a tree for every     *)
(* text here, and a did_change carries one content change.                 *)
(***************************************************************************)
PairNext ==
    \/ \E uri \in Uris, text \in DocTexts : DidOpenBegin(uri, text, 1, TRUE)
    \/ \E h \in DOMAIN handlers : DidOpenPublish(h)
    \/ \E h \in DOMAIN handlers : DidOpenInsert(h)
    \/ \E uri \in Uris : DidChangeBegin(uri, <<TextHopErr>>, 2, 0)
    \/ \E h \in DOMAIN handlers : DidChangeInsert(h)
    \/ \E h \in DOMAIN handlers : DidChangePublish(h)
    \/ \E uri \in Uris : Query("definition", uri, [line |-> 1, character |-> 4], FALSE)

SpecPair == Init /\ [][PairNext]_vars

\* the entry the open-document map holds for uri
EntryOf(d, uri) == IF uri \in DOMAIN d THEN Some(d[uri]) ELSE None

\* the step is a step of a did_open or did_change handler for uri that
\* holds the write lock
WriteStepFor(uri) ==
    \/ \E h \in DOMAIN handlers :
          handlers[h].uri = uri /\ (DidOpenInsert(h) \/ DidChangeInsert(h))
    \/ DidChangeBegin(uri, <<TextHopErr>>, 2, 0)

\* C28: a step changes the map's entry for a URI (its text, version, tree,
\* index and line index, or its presence) only if it is a step of a did_open
\* or did_change for that URI; a query changes no entry.
C28_NoCrossDocumentCoupling ==
    [][\A uri \in Uris :
          EntryOf(docs', uri) # EntryOf(docs, uri) => WriteStepFor(uri)]_vars

\* u2's did_change has taken its Document out of the map and put the
\* changed one back while u1's Document, opened before, is still the opened one
C28_Witness ==
    /\ DOMAIN docs = Uris
    /\ docs["u1"].text = TextDefHop /\ docs["u1"].version = 1
    /\ docs["u2"].text = TextHopErr /\ docs["u2"].version = 2
    /\ started = 3

(***************************************************************************)
(* Published diagnostics.                                                  *)
(***************************************************************************)
\* C29: once every did_open and did_change handler has finished, the
\* diagnostics last published for a URI are those of the Document the map
\* holds for it.
C29_PublishedFollowsStored ==
    (handlers = <<>> /\ ~crashed) =>
        \A uri \in DOMAIN docs :
            uri \in DOMAIN published
            => published[uri] = collect_diagnostics(docs[uri].tree, docs[uri].text)

====
